---- MODULE Spec2Model ----
(***************************************************************************)
(* Model of src/Lab1.py: class Nodo and class ArbolAVL (the AVL index      *)
(* keyed by temperatura_media, with the auxiliary list nodos_almacenados). *)
(*                                                                         *)
(* Objects live in a heap indexed by object identity; 0 is None.  Keys are *)
(* integers counting thousandths of a degree: the duplicate perturbation   *)
(* 0.001 is Epsilon = 1 and the search tolerance 0.1 is Tolerance = 100.   *)
(***************************************************************************)
EXTENDS Integers, Sequences, FiniteSets, TLC

\* ------------------------------------------------------------------ bounds
\* number of public calls explored; a call constructs at most one Nodo, so
\* the heap has room for MaxOps objects
MaxOps == 6

\* ------------------------------------------------------- program constants
Epsilon == 1
Tolerance == 100

\* ------------------------------------------------------------------ inputs
\* records offered to insertar: two share a key, 450 lies within the search
\* tolerance of 400, 10 lies far from both
Datos == {<<"A", "a", 10>>, <<"B", "b", 400>>, <<"C", "c", 400>>, <<"D", "d", 450>>}
Keys == {d[3] : d \in Datos}

Nil == 0
NodeIds == 1 .. MaxOps

VARIABLES heap, raiz, nodos_almacenados, last, ops
vars == <<heap, raiz, nodos_almacenados, last, ops>>

\* ------------------------------------------------------------- class Nodo
Blank == [iso3 |-> "", pais |-> "", temperatura_media |-> 0, altura |-> 0,
          izquierdo |-> Nil, derecho |-> Nil, padre |-> Nil]

Nodo(iso3, pais, temperatura_media) ==
    [iso3 |-> iso3, pais |-> pais, temperatura_media |-> temperatura_media,
     altura |-> 1, izquierdo |-> Nil, derecho |-> Nil, padre |-> Nil]

\* an identity is in use exactly when an object has been constructed there
Allocated(m) == {n \in NodeIds : m[n].altura > 0}

NewId(m) == CHOOSE n \in NodeIds \ Allocated(m) :
                \A k \in NodeIds \ Allocated(m) : n <= k

Max(a, b) == IF a >= b THEN a ELSE b
Abs(a) == IF a >= 0 THEN a ELSE 0 - a

\* --------------------------------------------- height and balance helpers
obtener_altura(m, nodo) == IF nodo = Nil THEN 0 ELSE m[nodo].altura

obtener_factor_balance(m, nodo) ==
    IF nodo = Nil THEN 0
    ELSE obtener_altura(m, m[nodo].izquierdo) - obtener_altura(m, m[nodo].derecho)

\* mutant: the right child's height is left out of the maximum
actualizar_altura_sin_derecho(m, nodo) ==
    [m EXCEPT ![nodo].altura = 1 + obtener_altura(m, m[nodo].izquierdo)]

actualizar_altura(m, nodo) ==
    [m EXCEPT ![nodo].altura =
        1 + Max(obtener_altura(m, m[nodo].izquierdo),
                obtener_altura(m, m[nodo].derecho))]

\* ---------------------------------------------------------------- rotations
\* A machine state st is [mem, lista, err, rots]; err is set when the Python
\* code raises (attribute access on None) and then nothing further is
\* executed; rots counts the rotations completed during the call.
Raise(st) == [st |-> [st EXCEPT !.err = TRUE], ret |-> Nil]

\* mutant: the moved subtree T2 keeps its old parent reference
rotar_derecha_sin_padre_T2(st, y) ==
    LET m == st.mem
        x == m[y].izquierdo
    IN  IF x = Nil THEN Raise(st)
        ELSE
        LET T2 == m[x].derecho
            m1 == [m EXCEPT ![x].derecho = y]
            m2 == [m1 EXCEPT ![y].izquierdo = T2]
            m3 == [m2 EXCEPT ![x].padre = m2[y].padre]
            m4 == [m3 EXCEPT ![y].padre = x]
            m6 == actualizar_altura(m4, y)
            m7 == actualizar_altura(m6, x)
        IN  [st |-> [st EXCEPT !.mem = m7, !.rots = @ + 1], ret |-> x]

rotar_derecha(st, y) ==
    LET m == st.mem
        x == m[y].izquierdo
    IN  IF x = Nil THEN Raise(st)
        ELSE
        LET T2 == m[x].derecho
            m1 == [m EXCEPT ![x].derecho = y]
            m2 == [m1 EXCEPT ![y].izquierdo = T2]
            m3 == [m2 EXCEPT ![x].padre = m2[y].padre]
            m4 == [m3 EXCEPT ![y].padre = x]
            m5 == IF T2 # Nil THEN [m4 EXCEPT ![T2].padre = y] ELSE m4
            m6 == actualizar_altura(m5, y)
            m7 == actualizar_altura(m6, x)
        IN  [st |-> [st EXCEPT !.mem = m7, !.rots = @ + 1], ret |-> x]

\* mutant: the two heights are recomputed in the wrong order (y before x)
rotar_izquierda_alturas_invertidas(st, x) ==
    LET m == st.mem
        y == m[x].derecho
    IN  IF y = Nil THEN Raise(st)
        ELSE
        LET T2 == m[y].izquierdo
            m1 == [m EXCEPT ![y].izquierdo = x]
            m2 == [m1 EXCEPT ![x].derecho = T2]
            m3 == [m2 EXCEPT ![y].padre = m2[x].padre]
            m4 == [m3 EXCEPT ![x].padre = y]
            m5 == IF T2 # Nil THEN [m4 EXCEPT ![T2].padre = x] ELSE m4
            m6 == actualizar_altura(m5, y)
            m7 == actualizar_altura(m6, x)
        IN  [st |-> [st EXCEPT !.mem = m7, !.rots = @ + 1], ret |-> y]

rotar_izquierda(st, x) ==
    LET m == st.mem
        y == m[x].derecho
    IN  IF y = Nil THEN Raise(st)
        ELSE
        LET T2 == m[y].izquierdo
            m1 == [m EXCEPT ![y].izquierdo = x]
            m2 == [m1 EXCEPT ![x].derecho = T2]
            m3 == [m2 EXCEPT ![y].padre = m2[x].padre]
            m4 == [m3 EXCEPT ![x].padre = y]
            m5 == IF T2 # Nil THEN [m4 EXCEPT ![T2].padre = x] ELSE m4
            m6 == actualizar_altura(m5, x)
            m7 == actualizar_altura(m6, y)
        IN  [st |-> [st EXCEPT !.mem = m7, !.rots = @ + 1], ret |-> y]

\* nodo.izquierdo = rotar_izquierda(nodo.izquierdo); return rotar_derecha(nodo)
rotar_izquierda_derecha(st, nodo) ==
    LET r == rotar_izquierda(st, st.mem[nodo].izquierdo)
    IN  IF r.st.err THEN r
        ELSE rotar_derecha([r.st EXCEPT !.mem[nodo].izquierdo = r.ret], nodo)

\* nodo.derecho = rotar_derecha(nodo.derecho); return rotar_izquierda(nodo)
rotar_derecha_izquierda(st, nodo) ==
    LET r == rotar_derecha(st, st.mem[nodo].derecho)
    IN  IF r.st.err THEN r
        ELSE rotar_izquierda([r.st EXCEPT !.mem[nodo].derecho = r.ret], nodo)

\* ----------------------------------------------------------------- insertion
\* lines 189-214: height update and the four key-driven rotation cases
\* mutant: the left-right and right-left cases rotate once instead of twice
rebalancear_insercion_sin_doble(st, nodo, temperatura_media) ==
    LET m == actualizar_altura(st.mem, nodo)
        s == [st EXCEPT !.mem = m]
        balance == obtener_factor_balance(m, nodo)
    IN  IF balance > 1 THEN rotar_derecha(s, nodo)
        ELSE IF balance < -1 THEN rotar_izquierda(s, nodo)
        ELSE [st |-> s, ret |-> nodo]

rebalancear_insercion(st, nodo, temperatura_media) ==
    LET m == actualizar_altura(st.mem, nodo)
        s == [st EXCEPT !.mem = m]
        balance == obtener_factor_balance(m, nodo)
        izq == m[nodo].izquierdo
        der == m[nodo].derecho
    IN  IF balance > 1 /\ temperatura_media < m[izq].temperatura_media
            THEN rotar_derecha(s, nodo)
        ELSE IF balance < -1 /\ temperatura_media > m[der].temperatura_media
            THEN rotar_izquierda(s, nodo)
        ELSE IF balance > 1 /\ temperatura_media > m[izq].temperatura_media
            THEN rotar_izquierda_derecha(s, nodo)
        ELSE IF balance < -1 /\ temperatura_media < m[der].temperatura_media
            THEN rotar_derecha_izquierda(s, nodo)
        ELSE [st |-> s, ret |-> nodo]

RECURSIVE insertar_recursivo(_, _, _, _, _)
insertar_recursivo(st, nodo, iso3, pais, temperatura_media) ==
    IF nodo = Nil THEN
        LET nuevo_nodo == NewId(st.mem)
        IN  [st |-> [st EXCEPT !.mem[nuevo_nodo] = Nodo(iso3, pais, temperatura_media),
                               !.lista = Append(@, nuevo_nodo)],
             ret |-> nuevo_nodo]
    ELSE
        LET clave == st.mem[nodo].temperatura_media
            aIzquierda == temperatura_media < clave
            \* equal keys: the local temperatura_media is perturbed and the
            \* perturbed value is what this frame compares afterwards
            t == IF temperatura_media < clave \/ temperatura_media > clave
                 THEN temperatura_media ELSE temperatura_media + Epsilon
            r == insertar_recursivo(st,
                     IF aIzquierda THEN st.mem[nodo].izquierdo ELSE st.mem[nodo].derecho,
                     iso3, pais, t)
        IN  IF r.st.err THEN r
            ELSE
            LET m1 == IF aIzquierda
                      THEN [r.st.mem EXCEPT ![nodo].izquierdo = r.ret]
                      ELSE [r.st.mem EXCEPT ![nodo].derecho = r.ret]
                m2 == [m1 EXCEPT ![r.ret].padre = nodo]
            IN  rebalancear_insercion([r.st EXCEPT !.mem = m2], nodo, t)

\* -------------------------------------------------------------------- search
RECURSIVE buscar_recursivo(_, _, _)
buscar_recursivo(m, nodo, temperatura_media) ==
    IF nodo = Nil \/ Abs(m[nodo].temperatura_media - temperatura_media) < Tolerance
    THEN nodo
    ELSE IF temperatura_media < m[nodo].temperatura_media
         THEN buscar_recursivo(m, m[nodo].izquierdo, temperatura_media)
         ELSE buscar_recursivo(m, m[nodo].derecho, temperatura_media)

buscar(m, r, temperatura_media) == buscar_recursivo(m, r, temperatura_media)

\* ------------------------------------------------------------------ deletion
RECURSIVE obtener_minimo(_, _)
obtener_minimo(m, nodo) ==
    IF m[nodo].izquierdo # Nil THEN obtener_minimo(m, m[nodo].izquierdo) ELSE nodo

\* lines 318-343: height update and the four structure-driven rotation cases
rebalancear_eliminacion(st, nodo) ==
    LET m == actualizar_altura(st.mem, nodo)
        s == [st EXCEPT !.mem = m]
        balance == obtener_factor_balance(m, nodo)
    IN  IF balance > 1 /\ obtener_factor_balance(m, m[nodo].izquierdo) >= 0
            THEN rotar_derecha(s, nodo)
        ELSE IF balance > 1 /\ obtener_factor_balance(m, m[nodo].izquierdo) < 0
            THEN rotar_izquierda_derecha(s, nodo)
        ELSE IF balance < -1 /\ obtener_factor_balance(m, m[nodo].derecho) <= 0
            THEN rotar_izquierda(s, nodo)
        ELSE IF balance < -1 /\ obtener_factor_balance(m, m[nodo].derecho) > 0
            THEN rotar_derecha_izquierda(s, nodo)
        ELSE [st |-> s, ret |-> nodo]

\* lines 295-297 and 308-310: nodo takes over the data fields of temp
CopiarDatos(m, nodo, temp) ==
    [m EXCEPT ![nodo].iso3 = m[temp].iso3,
              ![nodo].pais = m[temp].pais,
              ![nodo].temperatura_media = m[temp].temperatura_media]

RECURSIVE eliminar_recursivo(_, _, _)
eliminar_recursivo(st, nodo, temperatura_media) ==
    IF nodo = Nil THEN [st |-> st, ret |-> Nil]
    ELSE
    LET m == st.mem
        clave == m[nodo].temperatura_media
        izq == m[nodo].izquierdo
        der == m[nodo].derecho
    IN  IF temperatura_media < clave THEN
            LET r == eliminar_recursivo(st, izq, temperatura_media)
            IN  IF r.st.err THEN r
                ELSE rebalancear_eliminacion(
                         [r.st EXCEPT !.mem[nodo].izquierdo = r.ret], nodo)
        ELSE IF temperatura_media > clave THEN
            LET r == eliminar_recursivo(st, der, temperatura_media)
            IN  IF r.st.err THEN r
                ELSE rebalancear_eliminacion(
                         [r.st EXCEPT !.mem[nodo].derecho = r.ret], nodo)
        ELSE IF izq = Nil /\ der = Nil THEN
            \* leaf: nodo = None, returned to the caller
            [st |-> st, ret |-> Nil]
        ELSE IF izq = Nil \/ der = Nil THEN
            \* one child: the child's data is copied up, the child's parent
            \* reference is rewritten, and the child stays where it is
            LET temp == IF izq # Nil THEN izq ELSE der
                m1 == CopiarDatos(m, nodo, temp)
                m2 == [m1 EXCEPT ![temp].padre = nodo]
            IN  rebalancear_eliminacion([st EXCEPT !.mem = m2], nodo)
        ELSE
            \* two children: copy the in-order successor, delete its key
            \* from the right subtree
            LET temp == obtener_minimo(m, der)
                m1 == CopiarDatos(m, nodo, temp)
                r == eliminar_recursivo([st EXCEPT !.mem = m1], der,
                                        m[temp].temperatura_media)
            IN  IF r.st.err THEN r
                ELSE rebalancear_eliminacion(
                         [r.st EXCEPT !.mem[nodo].derecho = r.ret], nodo)

\* list.remove: drops the first occurrence of the object
RECURSIVE Remove(_, _)
Remove(s, n) ==
    IF s = <<>> THEN <<>>
    ELSE IF Head(s) = n THEN Tail(s)
    ELSE <<Head(s)>> \o Remove(Tail(s), n)

InList(s, n) == \E i \in 1 .. Len(s) : s[i] = n

\* ------------------------------------------------- object lifetime (Python)
\* An object exists while something refers to it: the list, the index's root,
\* or a field of another existing object.  The identity of an object is not
\* observable (the program never orders or prints identities), so after each
\* call the existing objects are renumbered 1, 2, ... in the order in which a
\* walk from the list and then the root first meets them; every other
\* identity is free again.
SeqHas(s, n) == \E i \in 1 .. Len(s) : s[i] = n

AppendNew(s, n) == IF n = Nil \/ SeqHas(s, n) THEN s ELSE Append(s, n)

RECURSIVE Visit(_, _, _)
Visit(m, s, i) ==
    IF i > Len(s) THEN s
    ELSE Visit(m,
               AppendNew(AppendNew(AppendNew(s, m[s[i]].izquierdo),
                                   m[s[i]].derecho), m[s[i]].padre),
               i + 1)

Alive(m, r, lista) == Visit(m, AppendNew(lista, r), 1)

Rename(s, n) == IF n = Nil THEN Nil ELSE CHOOSE i \in 1 .. Len(s) : s[i] = n

Collect(m, r, lista) ==
    LET s == Alive(m, r, lista)
    IN  [mem |-> [i \in NodeIds |->
                    IF i > Len(s) THEN Blank
                    ELSE [m[s[i]] EXCEPT !.izquierdo = Rename(s, @),
                                         !.derecho = Rename(s, @),
                                         !.padre = Rename(s, @)]],
         raiz |-> Rename(s, r),
         lista |-> [i \in 1 .. Len(lista) |-> Rename(s, lista[i])]]

\* ------------------------------------------------------- public operations
\* last records the most recent public call: its name, arguments and return
\* value, whether buscar(t) found a node just before it, the rotations it
\* completed, the keys that insertar has accepted so far, and the number of
\* eliminar calls made so far.
Init ==
    /\ heap = [n \in NodeIds |-> Blank]
    /\ raiz = Nil
    /\ nodos_almacenados = <<>>
    /\ last = [op |-> "init", iso3 |-> "", t |-> 0, ret |-> TRUE, found |-> FALSE,
               rots |-> 0, ins |-> {}, ndel |-> 0]
    /\ ops = 0

insertar(iso3, pais, temperatura_media) ==
    /\ ops < MaxOps
    /\ ops' = ops + 1
    /\ LET r == insertar_recursivo(
                    [mem |-> heap, lista |-> nodos_almacenados, err |-> FALSE, rots |-> 0],
                    raiz, iso3, pais, temperatura_media)
           nuevaRaiz == IF r.st.err THEN raiz ELSE r.ret
           c == Collect(r.st.mem, nuevaRaiz, r.st.lista)
       IN  /\ raiz' = c.raiz
           /\ nodos_almacenados' = c.lista
           /\ heap' = c.mem
           /\ last' = [op |-> "insertar", iso3 |-> iso3, t |-> temperatura_media,
                       ret |-> ~r.st.err,
                       found |-> buscar(heap, raiz, temperatura_media) # Nil,
                       rots |-> r.st.rots,
                       ins |-> IF r.st.err THEN last.ins
                               ELSE last.ins \cup {temperatura_media},
                       ndel |-> last.ndel]

\* mutant: the early return for an absent key is missing
eliminar_sin_retorno(temperatura_media) ==
    /\ ops < MaxOps
    /\ ops' = ops + 1
    /\ LET nodo_a_eliminar == buscar(heap, raiz, temperatura_media)
           lista == IF InList(nodos_almacenados, nodo_a_eliminar)
                    THEN Remove(nodos_almacenados, nodo_a_eliminar)
                    ELSE nodos_almacenados
           r == eliminar_recursivo(
                    [mem |-> heap, lista |-> lista, err |-> FALSE, rots |-> 0],
                    raiz, temperatura_media)
           nuevaRaiz == IF r.st.err THEN raiz ELSE r.ret
           c == Collect(r.st.mem, nuevaRaiz, lista)
       IN  /\ raiz' = c.raiz
           /\ nodos_almacenados' = c.lista
           /\ heap' = c.mem
           /\ last' = [op |-> "eliminar", iso3 |-> "", t |-> temperatura_media,
                       ret |-> ~r.st.err, found |-> nodo_a_eliminar # Nil,
                       rots |-> r.st.rots, ins |-> last.ins,
                       ndel |-> last.ndel + 1]

eliminar(temperatura_media) ==
    /\ ops < MaxOps
    /\ ops' = ops + 1
    /\ LET nodo_a_eliminar == buscar(heap, raiz, temperatura_media)
           lista == IF InList(nodos_almacenados, nodo_a_eliminar)
                    THEN Remove(nodos_almacenados, nodo_a_eliminar)
                    ELSE nodos_almacenados
           r == eliminar_recursivo(
                    [mem |-> heap, lista |-> lista, err |-> FALSE, rots |-> 0],
                    raiz, temperatura_media)
           nuevaRaiz == IF r.st.err THEN raiz ELSE r.ret
           c == Collect(r.st.mem, nuevaRaiz, lista)
       IN  IF nodo_a_eliminar = Nil THEN
               /\ UNCHANGED <<heap, raiz, nodos_almacenados>>
               /\ last' = [op |-> "eliminar", iso3 |-> "", t |-> temperatura_media,
                           ret |-> FALSE, found |-> FALSE, rots |-> 0,
                           ins |-> last.ins, ndel |-> last.ndel + 1]
           ELSE
               /\ raiz' = c.raiz
               /\ nodos_almacenados' = c.lista
               /\ heap' = c.mem
               /\ last' = [op |-> "eliminar", iso3 |-> "", t |-> temperatura_media,
                           ret |-> ~r.st.err, found |-> TRUE,
                           rots |-> r.st.rots, ins |-> last.ins,
                           ndel |-> last.ndel + 1]

\* ------------------------------------------------------ queries on the list
Reverse(s) == [i \in 1 .. Len(s) |-> s[Len(s) + 1 - i]]

RECURSIVE InsertSorted(_, _, _)
\* n goes behind every element whose key is not greater than its own
InsertSorted(m, s, n) ==
    IF s = <<>> THEN <<n>>
    ELSE IF m[Head(s)].temperatura_media <= m[n].temperatura_media
         THEN <<Head(s)>> \o InsertSorted(m, Tail(s), n)
         ELSE <<n>> \o s

RECURSIVE SortAscending(_, _)
\* a stable ascending sort by temperatura_media, as list.sort is
SortAscending(m, s) ==
    IF s = <<>> THEN <<>>
    ELSE InsertSorted(m, SortAscending(m, SubSeq(s, 1, Len(s) - 1)), s[Len(s)])

\* sorted(..., reverse=True): reverse, sort ascending (stable), reverse
SortedReverse(m, s) == Reverse(SortAscending(m, Reverse(s)))

\* mutant: the ascending result is merely reversed
SortedThenReversed(m, s) == Reverse(SortAscending(m, s))

RECURSIVE Filtrar(_, _, _)
Filtrar(m, s, temperatura_limite) ==
    IF s = <<>> THEN <<>>
    ELSE IF m[Head(s)].temperatura_media >= temperatura_limite
         THEN <<Head(s)>> \o Filtrar(m, Tail(s), temperatura_limite)
         ELSE Filtrar(m, Tail(s), temperatura_limite)

\* mutant: the result is sorted without keeping the scan order of equal keys
buscar_mayor_promedio_global_inestable(m, lista, temperatura_limite) ==
    SortedThenReversed(m, Filtrar(m, lista, temperatura_limite))

buscar_mayor_promedio_global(m, lista, temperatura_limite) ==
    SortedReverse(m, Filtrar(m, lista, temperatura_limite))

\* ------------------------------------------------------ tree observations
RECURSIVE Reach(_, _, _)
\* nodes reachable from nodo through child links; fuel stops a cyclic walk
Reach(m, nodo, fuel) ==
    IF nodo = Nil \/ fuel = 0 THEN {}
    ELSE {nodo} \cup Reach(m, m[nodo].izquierdo, fuel - 1)
                \cup Reach(m, m[nodo].derecho, fuel - 1)

Nodes == Reach(heap, raiz, MaxOps)

StoredKeys == {heap[n].temperatura_media : n \in Nodes}

Next ==
    \/ \E d \in Datos : insertar(d[1], d[2], d[3])
    \/ \E t \in Keys \cup StoredKeys : eliminar(t)

Spec == Init /\ [][Next]_vars

\* ------------------------------------------------------------ observations
Subarbol(n) == Reach(heap, n, MaxOps)

RECURSIVE AlturaReal(_, _, _)
\* the height of the subtree at nodo, counted from the links
AlturaReal(m, nodo, fuel) ==
    IF nodo = Nil \/ fuel = 0 THEN 0
    ELSE 1 + Max(AlturaReal(m, m[nodo].izquierdo, fuel - 1),
                 AlturaReal(m, m[nodo].derecho, fuel - 1))

RECURSIVE EnOrden(_, _, _)
\* the nodes of the subtree at nodo in in-order sequence
EnOrden(m, nodo, fuel) ==
    IF nodo = Nil \/ fuel = 0 THEN <<>>
    ELSE EnOrden(m, m[nodo].izquierdo, fuel - 1) \o <<nodo>>
         \o EnOrden(m, m[nodo].derecho, fuel - 1)

ClavesEnOrden ==
    LET s == EnOrden(heap, raiz, MaxOps)
    IN  [i \in 1 .. Len(s) |-> heap[s[i]].temperatura_media]

ListaSet == {nodos_almacenados[i] : i \in 1 .. Len(nodos_almacenados)}

Llamada == last.op \in {"insertar", "eliminar"}

\* ------------------------------------------------------------------ claims

\* C1: after every insertar or eliminar call, every node reachable from the
\* root has subtree heights of its two children differing by at most 1.
C1_Balance ==
    Llamada =>
        \A n \in Nodes :
            Abs(AlturaReal(heap, heap[n].izquierdo, MaxOps)
                - AlturaReal(heap, heap[n].derecho, MaxOps)) <= 1

\* C2: after every call the tree is in strict BST order: every key in a
\* node's left subtree is smaller and every key in its right subtree is
\* greater than the node's key.
C2_StrictOrder ==
    Llamada =>
        \A n \in Nodes :
            /\ \A k \in Subarbol(heap[n].izquierdo) :
                   heap[k].temperatura_media < heap[n].temperatura_media
            /\ \A k \in Subarbol(heap[n].derecho) :
                   heap[k].temperatura_media > heap[n].temperatura_media

\* C3: after every call an in-order traversal yields keys in non-decreasing
\* order.
C3_InOrderSorted ==
    Llamada =>
        \A i \in 1 .. Len(ClavesEnOrden) - 1 :
            ClavesEnOrden[i] <= ClavesEnOrden[i + 1]

\* C4: after every call, successful or not, every reachable node's stored
\* altura equals 1 + max of its children's stored heights (absent child: 0).
C4_StoredHeights ==
    Llamada =>
        \A n \in Nodes :
            heap[n].altura = 1 + Max(obtener_altura(heap, heap[n].izquierdo),
                                     obtener_altura(heap, heap[n].derecho))

\* C4 witness: an insertar call has just failed (returned False) on a tree of
\* height 3 or more, and the root's stored height is the real height.
C4_Witness ==
    /\ last.op = "insertar" /\ ~last.ret
    /\ raiz # Nil /\ heap[raiz].altura >= 3
    /\ heap[raiz].altura = AlturaReal(heap, raiz, MaxOps)

\* C5: after every call the root has no parent and every other reachable
\* node's parent has that node in exactly one of its two child slots.
C5_Parents ==
    Llamada =>
        /\ raiz # Nil => heap[raiz].padre = Nil
        /\ \A n \in Nodes \ {raiz} :
               LET p == heap[n].padre
               IN  /\ p # Nil
                   /\ (heap[p].izquierdo = n) # (heap[p].derecho = n)

\* C5 witness: a delete that completed a double rotation left a tree whose
\* inner nodes have both children.
C5_Witness ==
    /\ last.op = "eliminar" /\ last.ret /\ last.rots >= 2
    /\ raiz # Nil
    /\ heap[raiz].izquierdo # Nil /\ heap[raiz].derecho # Nil
    /\ heap[heap[raiz].izquierdo].padre = raiz
    /\ heap[heap[raiz].derecho].padre = raiz

\* C6: after every call the length of nodos_almacenados equals the number of
\* nodes reachable from the root.
C6_ListSize ==
    Llamada => Len(nodos_almacenados) = Cardinality(Nodes)

\* C7: after every call nodos_almacenados holds, without duplicates, exactly
\* the node objects reachable from the root.
C7_ListMirror ==
    Llamada =>
        /\ ListaSet = Nodes
        /\ Cardinality(ListaSet) = Len(nodos_almacenados)

\* C8: every insertar call returns True.
C8_InsertSucceeds ==
    last.op = "insertar" => last.ret

\* C9: after insertar(c, label, k) the immediately following buscar(k)
\* returns a record whose code is c.
C9_InsertThenSearch ==
    last.op = "insertar" =>
        LET n == buscar(heap, raiz, last.t)
        IN  n # Nil /\ heap[n].iso3 = last.iso3

\* C10: after k has been inserted and eliminar(k) has returned True, the
\* immediately following buscar(k) returns None.
C10_DeleteThenSearch ==
    (last.op = "eliminar" /\ last.ret /\ last.t \in last.ins) =>
        buscar(heap, raiz, last.t) = Nil

\* a call of eliminar has just returned (every call advances ops)
PasoEliminar == ops' = ops + 1 /\ last'.op = "eliminar"

\* the fields of a node that a caller can tell records apart by
Datos3(m, n) == <<m[n].iso3, m[n].pais, m[n].temperatura_media>>

\* C11: if buscar(key) finds no node, eliminar(key) returns False and leaves
\* the tree (shape, codes, keys, heights, parent references, root) and the
\* auxiliary list exactly as they were.
C11_DeleteAbsent ==
    [][(PasoEliminar /\ buscar(heap, raiz, last'.t) = Nil) =>
           /\ ~last'.ret
           /\ heap' = heap
           /\ raiz' = raiz
           /\ nodos_almacenados' = nodos_almacenados]_vars

\* C11 witness: eliminar has just returned False on a tree of three or more
\* nodes in which buscar finds nothing for its key.
C11_Witness ==
    /\ last.op = "eliminar" /\ ~last.ret
    /\ buscar(heap, raiz, last.t) = Nil
    /\ Cardinality(Nodes) >= 3

\* floor(1.44 * log2(n + 2)) for n = 1 .. 12
CotaAltura == <<2, 2, 3, 3, 4, 4, 4, 4, 4, 5, 5, 5>>

\* C12: after n insertar calls from an empty index (keys may repeat) the
\* tree height h satisfies h <= 1.44 * log2(n + 2).
C12_HeightBound ==
    (last.op = "insertar" /\ last.ndel = 0) =>
        AlturaReal(heap, raiz, MaxOps) <= CotaAltura[ops]

\* thresholds asked of buscar_mayor_promedio_global
Umbrales == Keys \cup {heap[n].temperatura_media : n \in ListaSet}

PosEnLista(n) == CHOOSE i \in 1 .. Len(nodos_almacenados) : nodos_almacenados[i] = n

\* C13: buscar_mayor_promedio_global(threshold) returns exactly the records
\* of nodos_almacenados whose key is >= threshold, each once, ordered by key
\* descending, records with equal keys in the order they have in the list.
C13_SearchAtLeast ==
    \A u \in Umbrales :
        LET res == buscar_mayor_promedio_global(heap, nodos_almacenados, u)
            clave(i) == heap[res[i]].temperatura_media
        IN  /\ {res[i] : i \in 1 .. Len(res)}
                 = {n \in ListaSet : heap[n].temperatura_media >= u}
            /\ Cardinality({res[i] : i \in 1 .. Len(res)}) = Len(res)
            /\ \A i \in 1 .. Len(res) - 1 :
                   /\ clave(i) >= clave(i + 1)
                   /\ clave(i) = clave(i + 1) =>
                          PosEnLista(res[i]) < PosEnLista(res[i + 1])

\* C13 witness: some threshold selects three or more records, two of them
\* with equal keys, and leaves at least one record out.
C13_Witness ==
    \E u \in Umbrales :
        LET res == buscar_mayor_promedio_global(heap, nodos_almacenados, u)
        IN  /\ Len(res) >= 3
            /\ Len(res) < Len(nodos_almacenados)
            /\ \E i \in 1 .. Len(res) - 1 :
                   heap[res[i]].temperatura_media = heap[res[i + 1]].temperatura_media

\* the (code, key) pairs of a sequence of nodes
Pares(m, s) == [i \in 1 .. Len(s) |-> <<m[s[i]].iso3, m[s[i]].temperatura_media>>]

ParesEnOrden == Pares(heap, EnOrden(heap, raiz, MaxOps))

ParesLista == Pares(heap, nodos_almacenados)

SinIndice(s, i) == SubSeq(s, 1, i - 1) \o SubSeq(s, i + 1, Len(s))

NumHijos(m, n) ==
    (IF m[n].izquierdo # Nil THEN 1 ELSE 0) + (IF m[n].derecho # Nil THEN 1 ELSE 0)

\* the node that buscar returns for the key of the eliminar call just made,
\* in the state before the call
Hallado == buscar(heap, raiz, last'.t)

\* eliminar has just been called with the exact key of the node buscar finds
EliminarExacto ==
    PasoEliminar /\ Hallado # Nil /\ heap[Hallado].temperatura_media = last'.t

\* C14: eliminar(k) with k exactly the key of the found node, which has
\* exactly one child, leaves the tree with one node fewer and the child's
\* code/label/key stored in exactly one reachable node.
C14_DeleteOneChild ==
    [][(EliminarExacto /\ NumHijos(heap, Hallado) = 1) =>
           LET hijo == IF heap[Hallado].izquierdo # Nil
                       THEN heap[Hallado].izquierdo ELSE heap[Hallado].derecho
           IN  /\ Cardinality(Nodes') = Cardinality(Nodes) - 1
               /\ Cardinality({k \in Nodes' :
                                  Datos3(heap', k) = Datos3(heap, hijo)}) = 1]_vars

\* C15: eliminar(k) with k exactly the key of the found node, which has two
\* children, leaves the in-order sequence of (code, key) pairs equal to the
\* previous one with exactly the target's pair removed.
C15_DeleteTwoChildren ==
    [][(EliminarExacto /\ NumHijos(heap, Hallado) = 2) =>
           \E i \in 1 .. Len(ParesEnOrden) :
               /\ EnOrden(heap, raiz, MaxOps)[i] = Hallado
               /\ ParesEnOrden' = SinIndice(ParesEnOrden, i)]_vars

\* C16: whenever eliminar(key) returns True, the record taken out of
\* nodos_almacenados and the (code, key) record that disappears from the
\* tree are both the record that buscar(key) returned just before the call.
C16_DeleteSameRecord ==
    [][(PasoEliminar /\ last'.ret) =>
           /\ \E j \in 1 .. Len(nodos_almacenados) :
                  /\ nodos_almacenados[j] = Hallado
                  /\ ParesLista' = SinIndice(ParesLista, j)
           /\ \E i \in 1 .. Len(ParesEnOrden) :
                  /\ EnOrden(heap, raiz, MaxOps)[i] = Hallado
                  /\ ParesEnOrden' = SinIndice(ParesEnOrden, i)]_vars

\* ------------------------------------------------------------ rotations
\* the machine state in which a rotation is called on the current heap
EstadoActual == [mem |-> heap, lista |-> nodos_almacenados, err |-> FALSE, rots |-> 0]

\* rotar_derecha(y) on the current heap, y having the left child x
ContratoDerecha(y) ==
    LET m == heap
        x == m[y].izquierdo
        T2 == m[x].derecho
        r == rotar_derecha(EstadoActual, y)
        n == r.st.mem
        hy == 1 + Max(obtener_altura(m, T2), obtener_altura(m, m[y].derecho))
        hx == 1 + Max(obtener_altura(m, m[x].izquierdo), hy)
    IN  /\ ~r.st.err /\ r.ret = x
        /\ n[x].derecho = y /\ n[y].izquierdo = T2
        /\ n[x].padre = m[y].padre /\ n[y].padre = x
        /\ T2 # Nil => n[T2].padre = y
        /\ n[y].altura = hy /\ n[x].altura = hx
        /\ n[x] = [m[x] EXCEPT !.derecho = y, !.padre = m[y].padre, !.altura = hx]
        /\ n[y] = [m[y] EXCEPT !.izquierdo = T2, !.padre = x, !.altura = hy]
        /\ T2 # Nil => n[T2] = [m[T2] EXCEPT !.padre = y]
        /\ \A k \in NodeIds \ {x, y, T2} : n[k] = m[k]
        /\ r.st.lista = nodos_almacenados
        /\ EnOrden(n, x, MaxOps) = EnOrden(m, y, MaxOps)

\* rotar_izquierda(x) on the current heap, x having the right child y
ContratoIzquierda(x) ==
    LET m == heap
        y == m[x].derecho
        T2 == m[y].izquierdo
        r == rotar_izquierda(EstadoActual, x)
        n == r.st.mem
        hx == 1 + Max(obtener_altura(m, m[x].izquierdo), obtener_altura(m, T2))
        hy == 1 + Max(hx, obtener_altura(m, m[y].derecho))
    IN  /\ ~r.st.err /\ r.ret = y
        /\ n[y].izquierdo = x /\ n[x].derecho = T2
        /\ n[y].padre = m[x].padre /\ n[x].padre = y
        /\ T2 # Nil => n[T2].padre = x
        /\ n[x].altura = hx /\ n[y].altura = hy
        /\ n[y] = [m[y] EXCEPT !.izquierdo = x, !.padre = m[x].padre, !.altura = hy]
        /\ n[x] = [m[x] EXCEPT !.derecho = T2, !.padre = y, !.altura = hx]
        /\ T2 # Nil => n[T2] = [m[T2] EXCEPT !.padre = x]
        /\ \A k \in NodeIds \ {x, y, T2} : n[k] = m[k]
        /\ r.st.lista = nodos_almacenados
        /\ EnOrden(n, y, MaxOps) = EnOrden(m, x, MaxOps)

\* C17: a right rotation at y (left child x, x's right subtree T2) returns x
\* with x.derecho = y and y.izquierdo = T2, sets x.padre to y's former parent,
\* y.padre to x and T2.padre to y, recomputes the height of y and then of x,
\* changes no other field of any node, and keeps the in-order sequence of the
\* rotated subtree; the left rotation is the mirror image.
C17_Rotations ==
    \A y \in Nodes :
        /\ heap[y].izquierdo # Nil => ContratoDerecha(y)
        /\ heap[y].derecho # Nil => ContratoIzquierda(y)

\* a rotation has run in the last call, and the tree holds a non-root node
\* whose left child has a right subtree and one whose right child has a left
\* subtree, so both rotations move a T2 and change both heights
C17_Witness ==
    /\ last.rots >= 1
    /\ \E y \in Nodes : /\ heap[y].padre # Nil /\ heap[y].izquierdo # Nil
                         /\ heap[heap[y].izquierdo].derecho # Nil
    /\ \E x \in Nodes : /\ heap[x].derecho # Nil
                         /\ heap[heap[x].derecho].izquierdo # Nil

\* ------------------------------------------------------------------ levels
RECURSIVE calcular_nivel(_, _, _, _)
calcular_nivel(m, nodo_actual, temperatura_objetivo, nivel) ==
    IF nodo_actual = Nil THEN 0 - 1
    ELSE IF Abs(m[nodo_actual].temperatura_media - temperatura_objetivo) < Tolerance
         THEN nivel
    ELSE IF temperatura_objetivo < m[nodo_actual].temperatura_media
         THEN calcular_nivel(m, m[nodo_actual].izquierdo, temperatura_objetivo, nivel + 1)
    ELSE calcular_nivel(m, m[nodo_actual].derecho, temperatura_objetivo, nivel + 1)

obtener_nivel_nodo(m, r, nodo) == calcular_nivel(m, r, m[nodo].temperatura_media, 1)

\* the depth of node n below nodo, following child references (nodo = level 1)
RECURSIVE Profundidad(_, _, _, _)
Profundidad(m, nodo, n, fuel) ==
    IF nodo = n \/ fuel = 0 THEN 1
    ELSE IF n \in Reach(m, m[nodo].izquierdo, fuel)
         THEN 1 + Profundidad(m, m[nodo].izquierdo, n, fuel - 1)
    ELSE 1 + Profundidad(m, m[nodo].derecho, n, fuel - 1)

\* C18: for every node reachable from the root, obtener_nivel_nodo returns the
\* node's own depth (root = 1), also when another node on its root path has a
\* key within the tolerance of its key.
C18_LevelOf ==
    \A n \in Nodes : obtener_nivel_nodo(heap, raiz, n) = Profundidad(heap, raiz, n, MaxOps)

\* ------------------------------------------------------- level-order listing
\* f"{temperatura_media:.1f}": the key in tenths, rounded to nearest (0.45 is
\* stored as the double just above 0.45 and prints as 0.5)
UnDecimal(temperatura_media) == (temperatura_media + 50) \div 100

\* f"{nodo.iso3}({nodo.temperatura_media:.1f}°C)"
Etiqueta(m, nodo) == <<m[nodo].iso3, UnDecimal(m[nodo].temperatura_media)>>

RECURSIVE obtener_nivel_recursivo(_, _, _, _, _)
obtener_nivel_recursivo(m, nodo, nivel_objetivo, nivel_actual, resultado) ==
    IF nodo = Nil THEN resultado
    ELSE IF nivel_actual = nivel_objetivo THEN Append(resultado, Etiqueta(m, nodo))
    ELSE IF nivel_actual < nivel_objetivo
         THEN obtener_nivel_recursivo(m, m[nodo].derecho, nivel_objetivo, nivel_actual + 1,
                  obtener_nivel_recursivo(m, m[nodo].izquierdo, nivel_objetivo,
                                          nivel_actual + 1, resultado))
    ELSE resultado

\* the loop "for nivel in range(desde, hasta + 1)" with its accumulator
RECURSIVE BucleNiveles(_, _, _, _, _)
BucleNiveles(m, r, nivel, hasta, resultado) ==
    IF nivel > hasta THEN resultado
    ELSE LET nodos_nivel == obtener_nivel_recursivo(m, r, nivel, 1, <<>>)
         IN  BucleNiveles(m, r, nivel + 1, hasta,
                          IF nodos_nivel # <<>> THEN Append(resultado, nodos_nivel)
                          ELSE resultado)

\* mutant: the loop stops one level short, range(1, altura_maxima)
recorrido_por_niveles_sin_ultimo(m, r) ==
    IF r = Nil THEN <<>>
    ELSE BucleNiveles(m, r, 1, obtener_altura(m, r) - 1, <<>>)

recorrido_por_niveles(m, r) ==
    IF r = Nil THEN <<>>
    ELSE BucleNiveles(m, r, 1, obtener_altura(m, r), <<>>)

\* the nodes of sequence s that lie at depth d, in the order of s
RECURSIVE EnNivel(_, _)
EnNivel(s, d) ==
    IF s = <<>> THEN <<>>
    ELSE IF Profundidad(heap, raiz, Head(s), MaxOps) = d
         THEN <<Head(s)>> \o EnNivel(Tail(s), d)
    ELSE EnNivel(Tail(s), d)

Etiquetas(s) == [i \in 1 .. Len(s) |-> Etiqueta(heap, s[i])]

RECURSIVE SumaLen(_)
SumaLen(s) == IF s = <<>> THEN 0 ELSE Len(Head(s)) + SumaLen(Tail(s))

\* C19: recorrido_por_niveles returns one sequence per depth 1..height, the
\* sequence for depth d listing exactly the nodes at depth d from left to
\* right, so every reachable node appears once overall; on an empty tree the
\* result is empty (the operator reads the tree and assigns nothing).
C19_LevelOrder ==
    LET res == recorrido_por_niveles(heap, raiz)
        h == AlturaReal(heap, raiz, MaxOps)
    IN  /\ Len(res) = h
        /\ \A d \in 1 .. h :
               res[d] = Etiquetas(EnNivel(EnOrden(heap, raiz, MaxOps), d))
        /\ SumaLen(res) = Cardinality(Nodes)
        /\ raiz = Nil => res = <<>>

\* a tree of height at least 3 with a level of two or more nodes whose
\* identifiers differ, so that the left-to-right order shows
C19_Witness ==
    LET res == recorrido_por_niveles(heap, raiz)
    IN  /\ Len(res) >= 3
        /\ \E d \in 1 .. Len(res) : Len(res[d]) >= 2 /\ res[d][1] # res[d][2]
        /\ Len(res[Len(res)]) >= 1

\* ------------------------------------------------------ recorded search path
\* mutant: a node added to the path is never discarded
RECURSIVE marcar_camino_busqueda_sin_descartar(_, _, _, _)
marcar_camino_busqueda_sin_descartar(m, nodo, temperatura_objetivo, camino) ==
    IF nodo = Nil THEN [camino |-> camino, ret |-> FALSE]
    ELSE
    LET c1 == camino \cup {nodo}
    IN  IF Abs(m[nodo].temperatura_media - temperatura_objetivo) < Tolerance
        THEN [camino |-> c1, ret |-> TRUE]
        ELSE
        LET r == IF temperatura_objetivo < m[nodo].temperatura_media
                 THEN marcar_camino_busqueda_sin_descartar(m, m[nodo].izquierdo,
                                                           temperatura_objetivo, c1)
                 ELSE marcar_camino_busqueda_sin_descartar(m, m[nodo].derecho,
                                                           temperatura_objetivo, c1)
        IN  IF r.ret THEN r ELSE [camino |-> r.camino, ret |-> FALSE]

\* the set camino is passed by reference: the call returns it with its result
RECURSIVE marcar_camino_busqueda(_, _, _, _)
marcar_camino_busqueda(m, nodo, temperatura_objetivo, camino) ==
    IF nodo = Nil THEN [camino |-> camino, ret |-> FALSE]
    ELSE
    LET c1 == camino \cup {nodo}
    IN  IF Abs(m[nodo].temperatura_media - temperatura_objetivo) < Tolerance
        THEN [camino |-> c1, ret |-> TRUE]
        ELSE
        LET r == IF temperatura_objetivo < m[nodo].temperatura_media
                 THEN marcar_camino_busqueda(m, m[nodo].izquierdo, temperatura_objetivo, c1)
                 ELSE marcar_camino_busqueda(m, m[nodo].derecho, temperatura_objetivo, c1)
        IN  IF r.ret THEN r ELSE [camino |-> r.camino \ {nodo}, ret |-> FALSE]

\* the nodes on which the descent of buscar is called
RECURSIVE Visitados(_, _, _)
Visitados(m, nodo, temperatura_media) ==
    IF nodo = Nil THEN {}
    ELSE IF Abs(m[nodo].temperatura_media - temperatura_media) < Tolerance THEN {nodo}
    ELSE IF temperatura_media < m[nodo].temperatura_media
         THEN {nodo} \cup Visitados(m, m[nodo].izquierdo, temperatura_media)
    ELSE {nodo} \cup Visitados(m, m[nodo].derecho, temperatura_media)

\* the keys searched for: the input keys, every stored key, and 0.2, which
\* lies between the keys of Datos and further than the tolerance from all
Objetivos == Keys \cup StoredKeys \cup {200}

CaminoMarcado(t) == marcar_camino_busqueda(heap, raiz, t, {})

\* C20 as stated: for any key, the recorded search path contains every node
\* the descent of buscar visits, when the search matches and when it fails.
C20_PathAllVisited ==
    \A t \in Objetivos : Visitados(heap, raiz, t) \subseteq CaminoMarcado(t).camino

\* C20 amended: when the search ends in a match the recorded path is exactly
\* the set of nodes the descent of buscar visits; when it ends in failure the
\* recorded path is empty; the result tells which.
C20_PathOnMatch ==
    \A t \in Objetivos :
        LET r == CaminoMarcado(t)
        IN  /\ r.ret = (buscar(heap, raiz, t) # Nil)
            /\ r.ret => r.camino = Visitados(heap, raiz, t)
            /\ ~r.ret => r.camino = {}

\* one search matches below the root and another fails after visiting at
\* least two nodes
C20_Witness ==
    /\ \E t \in Objetivos : /\ CaminoMarcado(t).ret
                             /\ Cardinality(CaminoMarcado(t).camino) >= 2
    /\ \E t \in Objetivos : /\ ~CaminoMarcado(t).ret
                             /\ Cardinality(Visitados(heap, raiz, t)) >= 2

\* ------------------------------------------------ inserts of distinct keys
\* records whose keys all differ, for runs of insertar alone in which no
\* inserted key is already stored
DatosDistintos == {<<"A", "a", 10>>, <<"E", "e", 100>>, <<"F", "f", 200>>,
                   <<"G", "g", 300>>, <<"B", "b", 400>>, <<"D", "d", 450>>,
                   <<"H", "h", 500>>}

NextDistintos ==
    \E d \in DatosDistintos : d[3] \notin StoredKeys /\ insertar(d[1], d[2], d[3])

SpecDistintos == Init /\ [][NextDistintos]_vars

\* C21: in every run of insertar calls alone from the empty index in which no
\* inserted key equals a stored key, after each insert every node has
\* |balance factor| <= 1, the in-order keys are strictly increasing, and the
\* insert returned success.
C21_DistinctInserts ==
    last.op = "insertar" =>
        /\ last.ret
        /\ \A n \in Nodes :
               Abs(AlturaReal(heap, heap[n].izquierdo, MaxOps)
                   - AlturaReal(heap, heap[n].derecho, MaxOps)) <= 1
        /\ \A i \in 1 .. Len(ClavesEnOrden) - 1 :
               ClavesEnOrden[i] < ClavesEnOrden[i + 1]
        /\ Len(ClavesEnOrden) = ops

\* the last insert did a double rotation below the root of a tree that now
\* holds six nodes
C21_Witness ==
    /\ last.op = "insertar" /\ last.rots = 2
    /\ Cardinality(Nodes) = MaxOps
    /\ Cardinality(last.ins) = MaxOps

\* --------------------------------------------------------- failed inserts
PasoInsertar == ops' = ops + 1 /\ last'.op = "insertar"

\* C22: whenever insertar returns False, the tree and the auxiliary list are
\* as they were before the call: no node has been created, attached or
\* appended.
C22_FailedInsertNoChange ==
    [][(PasoInsertar /\ ~last'.ret) =>
           /\ ParesLista' = ParesLista
           /\ ParesEnOrden' = ParesEnOrden
           /\ Cardinality(Allocated(heap')) = Cardinality(Allocated(heap))]_vars

\* ------------------------------------------------------ deleting the root
\* eliminar is called with the exact stored key of the current root
EliminarRaiz ==
    PasoEliminar /\ raiz # Nil /\ last'.t = heap[raiz].temperatura_media

\* C23: from any reachable non-empty state, every eliminar called with the
\* exact stored key of the current root returns success and strictly reduces
\* the number of nodes reachable from the root, so that repeating it leaves
\* the tree empty.
C23_DeleteRootShrinks ==
    [][EliminarRaiz => (last'.ret /\ Cardinality(Nodes') < Cardinality(Nodes))]_vars

\* ------------------------------------------------------ search by tolerance
\* the keys searched for: those of Objetivos and, around every stored key, the
\* keys just inside and just outside the tolerance
Sondas ==
    Objetivos \cup {k + d : k \in StoredKeys,
                            d \in {0 - Tolerance, 1 - Tolerance, Tolerance - 1, Tolerance}}

\* C24: in any state reachable by insertar and eliminar calls, buscar(key)
\* returns absent exactly when no node reachable from the root has a key
\* within the tolerance of key, and a node it returns has a key within the
\* tolerance of key.
C24_SearchComplete ==
    \A t \in Sondas :
        LET nodo == buscar(heap, raiz, t)
        IN  /\ (nodo = Nil) <=>
                   ~\E k \in Nodes : Abs(heap[k].temperatura_media - t) < Tolerance
            /\ nodo # Nil => Abs(heap[nodo].temperatura_media - t) < Tolerance

====
